---- MODULE Spec2Model ----
(***************************************************************************)
(* Model of the Z-Image-Turbo client (client.py, class ZImageClient): the  *)
(* submission calls generate_sync / generate_async, the status poller      *)
(* check_status / get_result with its wall clock, and health_check,        *)
(* against a remote service whose job document evolves on its own.         *)
(***************************************************************************)
EXTENDS Integers, Sequences, FiniteSets, TLC

\* ------------------------------------------------------------------ bounds
\* Largest clock value up to which latency (Tick) may still pass.
MaxTime == 3
\* Largest max_wait argument tried (seconds).
MaxWaitArg == 2
\* Longest byte sequence put through the base64 round trip.
MaxBytes == 4
\* Concurrent calls: the clock value up to which time passes unasked, and
\* the largest max_wait argument tried.
ConcMaxTime == 1
ConcMaxWait == 1

\* time.sleep(1): the fixed pause between two polls.
SleepSecs == 1
\* The only HTTP status the client accepts.
HTTP_OK == 200

VARIABLES
    pc,          \* position of the call: "idle", "poll", "recv", "done"
    op,          \* the operation invoked: method name, "" before the call
    req,         \* generate_*: the request arguments [prompt, height, width]
    wait,        \* get_result: the wait argument
    max_wait,    \* get_result: the max_wait argument
    start_time,  \* get_result: time.time() at entry
    now,         \* the wall clock, in seconds
    job,         \* the status document the service holds for the job
    termTime,    \* when the job became terminal at the service, -1 if not yet
    resp,        \* the HTTP response of the status query in flight
    net,         \* the outbound network calls made so far: <<[ep, at]>>
    obs,         \* get_result: the job_status values observed so far
    sleeps,      \* get_result: number of time.sleep calls made so far
    outcome      \* how the call ended: a return value or a raised error

\* The client call of the single-call specifications.
clientVars == <<pc, op, req, wait, max_wait, start_time, now, job, termTime,
                resp, net, obs, sleeps, outcome>>

VARIABLES
    raw,         \* round trip: the bytes the handler encodes
    img_b64,     \* round trip: the 'image' string the handler produced
    img_data,    \* round trip: what the client's b64decode gave
    b64pc        \* round trip: "raw", "encoded", "decoded"

b64Vars == <<raw, img_b64, img_data, b64pc>>

VARIABLES
    hjob,        \* handler: the job handed to generate_image
    pipeOk,      \* handler: whether the pipeline call would succeed
    pipeCalls,   \* handler: the arguments of the pipeline calls made
    hresult,     \* handler: the dictionary generate_image returned
    hpc          \* handler: "ready", "done"

handlerVars == <<hjob, pipeOk, pipeCalls, hresult, hpc>>

VARIABLES
    self,        \* concurrent calls: the fields of the shared client object
    calls,       \* concurrent calls: the locals of each get_result call
    jobs,        \* concurrent calls: the service's document of each job
    clock        \* concurrent calls: the wall clock

concVars == <<self, calls, jobs, clock>>

\* What the single client call leaves alone.
restVars == <<b64Vars, handlerVars, concVars>>

vars == <<clientVars, b64Vars, handlerVars, concVars>>

\* ------------------------------------------------------------- JSON values
\* A JSON object is a function from its keys; EmptyObj is {}.
EmptyObj == [k \in {} |-> ""]

\* Python's None where a string is expected (dict.get of an absent key).
PyNone == "<None>"

\* dict.get(k, default)
Get(d, k, default) == IF k \in DOMAIN d THEN d[k] ELSE default

\* dict.get(k) of a key whose value is a base64 string: None when absent.
NoneStr == [some |-> FALSE]
GetStr(d, k) == IF k \in DOMAIN d THEN [some |-> TRUE, v |-> d[k]] ELSE NoneStr

\* ------------------------------------------------------------------ base64
\* A base64 string is a sequence over the alphabet's indices 0..63, with
\* Pad for '='.
Pad == 64

RECURSIVE B64Encode(_)
\* base64.b64encode: three bytes give four sextets; a last group of one or
\* two bytes gives two or three sextets and '=' padding.
B64Encode(b) ==
    IF Len(b) = 0 THEN <<>>
    ELSE IF Len(b) = 1 THEN
        <<b[1] \div 4, (b[1] % 4) * 16, Pad, Pad>>
    ELSE IF Len(b) = 2 THEN
        <<b[1] \div 4, (b[1] % 4) * 16 + b[2] \div 16, (b[2] % 16) * 4, Pad>>
    ELSE
        <<b[1] \div 4, (b[1] % 4) * 16 + b[2] \div 16,
          (b[2] % 16) * 4 + b[3] \div 64, b[3] % 64>>
        \o B64Encode(SubSeq(b, 4, Len(b)))

\* Whether b64decode accepts s: whole quads, padding only as the last one
\* or two characters (else binascii.Error, "Incorrect padding").
B64Valid(s) ==
    /\ Len(s) % 4 = 0
    /\ \A i \in 1..Len(s) : s[i] = Pad => i >= Len(s) - 1
    /\ (Len(s) > 0 /\ s[Len(s) - 1] = Pad) => s[Len(s)] = Pad

RECURSIVE B64Decode_PadAsData(_)
\* A decoder that reads '=' as a zero sextet and always gives three bytes
\* per quad.
B64Decode_PadAsData(s) ==
    IF Len(s) = 0 THEN <<>>
    ELSE
        LET a == s[1]
            b == s[2]
            c == IF s[3] = Pad THEN 0 ELSE s[3]
            d == IF s[4] = Pad THEN 0 ELSE s[4]
        IN  <<a * 4 + b \div 16, (b % 16) * 16 + c \div 4, (c % 4) * 64 + d>>
            \o B64Decode_PadAsData(SubSeq(s, 5, Len(s)))

RECURSIVE B64Decode(_)
\* base64.b64decode on an accepted string.
B64Decode(s) ==
    IF Len(s) = 0 THEN <<>>
    ELSE
        LET a == s[1]
            b == s[2]
            c == s[3]
            d == s[4]
            b1 == a * 4 + b \div 16
            b2 == (b % 16) * 16 + c \div 4
            b3 == (c % 4) * 64 + d
        IN  IF c = Pad THEN <<b1>>
            ELSE IF d = Pad THEN <<b1, b2>>
            ELSE <<b1, b2, b3>> \o B64Decode(SubSeq(s, 5, Len(s)))

\* The bytes of a PNG file: its signature's first bytes stand for the file.
PngBytes == <<137, 80, 78, 71>>
\* Bytes that are no image file.
JunkBytes == <<1, 2, 3>>

\* Image.open identifies the file by its header; anything else raises
\* PIL.UnidentifiedImageError.
IsImage(bytes) ==
    Len(bytes) >= Len(PngBytes) /\ SubSeq(bytes, 1, Len(PngBytes)) = PngBytes

\* ------------------------------------------------------------ call results
Return(type, val) == [kind |-> "return", type |-> type, val |-> val]
Raise(type, msg) == [kind |-> "raise", type |-> type, val |-> msg]
NoOutcome == [kind |-> "none", type |-> "", val |-> <<>>]

\* img_data = base64.b64decode(img_base64); image = Image.open(BytesIO(img_data))
DecodeImage(img_base64) ==
    IF ~img_base64.some THEN
        Raise("TypeError", <<"argument should be a bytes-like object or ASCII string">>)
    ELSE IF ~B64Valid(img_base64.v) THEN
        Raise("binascii.Error", <<"Incorrect padding">>)
    ELSE IF ~IsImage(B64Decode(img_base64.v)) THEN
        Raise("UnidentifiedImageError", <<"cannot identify image file">>)
    ELSE Return("Image", B64Decode(img_base64.v))

\* ------------------------------------------------------------ HTTP replies
\* What requests.get / requests.post gives: a raised transport exception
\* (exc), or a response with a status code and a JSON body.
Reply(code, json) == [exc |-> "", code |-> code, json |-> json]
Broken(exc) == [exc |-> exc, code |-> 0, json |-> EmptyObj]
NoReply == Broken("")

\* ------------------------------------------------------------- the methods
\* generate_sync, from the response of its POST /runsync.
GenerateSyncResult(r) ==
    IF r.exc # "" THEN Raise(r.exc, <<>>)
    ELSE IF r.code # HTTP_OK THEN
        Raise("Exception", <<"API request failed: ", ToString(r.code)>>)
    ELSE IF "error" \in DOMAIN r.json THEN
        Raise("Exception", <<"Generation failed: ", r.json.error>>)
    ELSE
        LET output == Get(r.json, "output", EmptyObj)
            img_base64 == GetStr(output, "image")
        IN  IF "error" \in DOMAIN output THEN
                Raise("Exception", <<"Generation failed: ", output.error>>)
            ELSE IF ~img_base64.some \/ img_base64.v = <<>> THEN
                Raise("Exception", <<"No image in response: ">>)
            ELSE DecodeImage(img_base64)

\* generate_async, from the response of its POST /run.
GenerateAsyncResult(r) ==
    IF r.exc # "" THEN Raise(r.exc, <<>>)
    ELSE IF r.code # HTTP_OK THEN
        Raise("Exception", <<"API request failed: ", ToString(r.code)>>)
    ELSE IF "id" \in DOMAIN r.json THEN Return("str", <<r.json.id>>)
    ELSE Return("NoneType", <<>>)

\* The status code of the response not looked at: a failed query's body is
\* read like a status document.
CheckStatusResult_NoCodeCheck(r) ==
    IF r.exc # "" THEN Raise(r.exc, <<>>)
    ELSE Return("dict", r.json)

\* check_status, from the response of its GET /status/{job_id}.
CheckStatusResult(r) ==
    IF r.exc # "" THEN Raise(r.exc, <<>>)
    ELSE IF r.code # HTTP_OK THEN
        Raise("Exception", <<"Status check failed: ", ToString(r.code)>>)
    ELSE Return("dict", r.json)

\* The image decoded whenever there is one, the error indicator only
\* looked at when there is none.
CompletedBranch_ImageFirst(status) ==
    LET output == Get(status, "output", EmptyObj)
    IN  IF "image" \in DOMAIN output THEN DecodeImage(GetStr(output, "image"))
        ELSE IF "error" \in DOMAIN output THEN
            Raise("Exception", <<"Generation failed: ", output.error>>)
        ELSE DecodeImage(GetStr(output, "image"))

\* get_result, the branch job_status == "COMPLETED".
CompletedBranch(status) ==
    LET output == Get(status, "output", EmptyObj)
    IN  IF "error" \in DOMAIN output THEN
            Raise("Exception", <<"Generation failed: ", output.error>>)
        ELSE DecodeImage(GetStr(output, "image"))

\* A failed job reported without its reason.
FailedBranch_Generic(status) ==
    Raise("Exception", <<"Job failed: ", "Unknown error">>)

\* A failed job polled again instead of ending the call.
FailedBranch_Retry(status) == NoOutcome

\* get_result, the branch job_status == "FAILED".
FailedBranch(status) ==
    Raise("Exception", <<"Job failed: ", Get(status, "error", "Unknown error")>>)

\* The wait flag ignored: a pending job is always waited for.
PendingBranch_IgnoreWait(w, elapsed, mw) ==
    IF elapsed > mw THEN
        Raise("TimeoutError", <<"Job did not complete within ", ToString(mw), " seconds">>)
    ELSE NoOutcome

\* The deadline never tested: a pending job is polled for ever.
PendingBranch_NoDeadline(w, elapsed, mw) ==
    IF ~w THEN Return("NoneType", <<>>) ELSE NoOutcome

\* The deadline test off by one poll interval.
PendingBranch_LateTimeout(w, elapsed, mw) ==
    IF ~w THEN Return("NoneType", <<>>)
    ELSE IF elapsed > mw + SleepSecs THEN
        Raise("TimeoutError", <<"Job did not complete within ", ToString(mw), " seconds">>)
    ELSE NoOutcome

\* get_result, the branch job_status in ["IN_QUEUE", "IN_PROGRESS"]:
\* NoOutcome when the loop sleeps and polls again.  elapsed is
\* time.time() - start_time, read in this branch.
PendingBranch(w, elapsed, mw) ==
    IF ~w THEN Return("NoneType", <<>>)
    ELSE IF elapsed > mw THEN
        Raise("TimeoutError", <<"Job did not complete within ", ToString(mw), " seconds">>)
    ELSE NoOutcome

\* A status outside the known set polled again like a pending one.
UnknownBranch_AsPending(job_status) == NoOutcome

\* get_result, the final else branch.
UnknownBranch(job_status) ==
    Raise("Exception", <<"Unknown job status: ", job_status>>)

\* The deadline tested before the status is looked at.
GetResultStep_DeadlineFirst(status, w, elapsed, mw) ==
    LET job_status == Get(status, "status", PyNone)
    IN  IF w /\ elapsed > mw THEN
            Raise("TimeoutError", <<"Job did not complete within ", ToString(mw), " seconds">>)
        ELSE IF job_status = "COMPLETED" THEN CompletedBranch(status)
        ELSE IF job_status = "FAILED" THEN FailedBranch(status)
        ELSE IF job_status \in {"IN_QUEUE", "IN_PROGRESS"} THEN
            PendingBranch(w, elapsed, mw)
        ELSE UnknownBranch(job_status)

\* One pass of get_result's loop body over the status dictionary: the
\* outcome that ends the call, or NoOutcome when the loop sleeps and polls
\* again.
GetResultStep(status, w, elapsed, mw) ==
    LET job_status == Get(status, "status", PyNone)
    IN  IF job_status = "COMPLETED" THEN CompletedBranch(status)
        ELSE IF job_status = "FAILED" THEN FailedBranch(status)
        ELSE IF job_status \in {"IN_QUEUE", "IN_PROGRESS"} THEN
            PendingBranch(w, elapsed, mw)
        ELSE UnknownBranch(job_status)

\* The probe's exception let through to the caller.
HealthCheckResult_Propagate(r) ==
    IF r.exc # "" THEN Raise(r.exc, <<>>)
    ELSE Return("bool", r.code = HTTP_OK)

\* health_check, from the response of its GET /health: the bare except
\* turns every raised exception into False.
HealthCheckResult(r) ==
    IF r.exc # "" THEN Return("bool", FALSE)
    ELSE Return("bool", r.code = HTTP_OK)

\* ------------------------------------------------------------------ inputs
\* Request arguments: an empty and a non-empty prompt; dimensions that are a
\* negative multiple of 8, zero, a non-multiple and a positive multiple.
Prompts == {"", "sunset"}
Dims == {-8, 0, 1023, 1024}
Requests == [prompt : Prompts, height : Dims, width : Dims]
NoRequest == [prompt |-> "", height |-> 0, width |-> 0]

\* Reasons the service may report.
Reasons == {"oom"}

\* Values of an 'image' field: the encodings of a PNG file and of bytes that
\* are no image, the empty string, and a string cut short.
Images == {B64Encode(PngBytes), B64Encode(JunkBytes), <<>>, <<1, 2, 3>>}

\* Values of an 'output' field.
Outputs ==
    {EmptyObj}
    \cup {[error |-> e] : e \in Reasons}
    \cup {[image |-> i] : i \in Images}
    \cup {[image |-> B64Encode(PngBytes), error |-> e] : e \in Reasons}

\* JSON bodies of a /runsync response.
SyncBodies ==
    {EmptyObj}
    \cup {[error |-> e] : e \in Reasons}
    \cup {[output |-> o] : o \in Outputs}
    \cup {[output |-> [image |-> B64Encode(PngBytes)], error |-> e] : e \in Reasons}

\* JSON bodies of a /run response.
AsyncBodies ==
    {EmptyObj, [id |-> "job-1"]}
    \cup {[error |-> e] : e \in Reasons}
    \cup {[id |-> "job-1", error |-> e] : e \in Reasons}

\* Status codes a response may carry, and exceptions requests may raise.
Codes == {HTTP_OK, 201, 404, 500}
TransportExcs == {"ConnectionError", "Timeout"}

\* Status documents of a job that is still pending at the service.
PendingJobs == {[status |-> "IN_QUEUE"], [status |-> "IN_PROGRESS"]}

\* Status documents of a job that no longer changes: completed (with every
\* shape of output, or none), failed (with or without a reason), a status
\* outside the client's known set, and a document with no status field.
TerminalJobs ==
    {[status |-> "COMPLETED"]}
    \cup {[status |-> "COMPLETED", output |-> o] : o \in Outputs}
    \cup {[status |-> "FAILED"]}
    \cup {[status |-> "FAILED", error |-> e] : e \in Reasons}
    \cup {[status |-> "CANCELLED"], EmptyObj}

JobDocs == PendingJobs \cup TerminalJobs

\* What the service can answer to a status query while it holds document j.
StatusReplies(j) ==
    {Reply(c, j) : c \in Codes} \cup {Broken(e) : e \in TransportExcs}

\* -------------------------------------------------------------------- Init
\* The client before any call.
ClientIdle ==
    /\ pc = "idle"
    /\ op = ""
    /\ req = NoRequest
    /\ wait = FALSE
    /\ max_wait = 0
    /\ start_time = 0
    /\ now = 0
    /\ job = EmptyObj
    /\ termTime = -1
    /\ resp = NoReply
    /\ net = <<>>
    /\ obs = <<>>
    /\ sleeps = 0
    /\ outcome = NoOutcome

\* The parts of the state the single client call does not use, at rest.
B64Idle ==
    /\ raw = <<>>
    /\ img_b64 = <<>>
    /\ img_data = [ok |-> FALSE, bytes |-> <<>>]
    /\ b64pc = "idle"

HandlerIdle ==
    /\ hjob = EmptyObj
    /\ pipeOk = FALSE
    /\ pipeCalls = <<>>
    /\ hresult = EmptyObj
    /\ hpc = "idle"

ConcIdle ==
    /\ self = EmptyObj
    /\ calls = <<>>
    /\ jobs = <<>>
    /\ clock = 0

Init == ClientIdle /\ B64Idle /\ HandlerIdle /\ ConcIdle

\* One outbound HTTP call to endpoint ep, issued at the current time.
Sent(ep) == Append(net, [ep |-> ep, at |-> now])

\* ----------------------------------------------------------------- actions
\* The blocking call built from a /run submission followed by a /status
\* query instead of the single-call synchronous endpoint.
GenerateSync_SubmitThenPoll ==
    /\ pc = "idle"
    /\ \E q \in Requests :
        \E r \in {Reply(c, b) : c \in Codes, b \in SyncBodies}
                 \cup {Broken(e) : e \in TransportExcs} :
            /\ req' = q
            /\ resp' = r
            /\ outcome' = GenerateSyncResult(r)
    /\ op' = "generate_sync"
    /\ net' = Append(Sent("/run"), [ep |-> "/status", at |-> now])
    /\ pc' = "done"
    /\ UNCHANGED <<wait, max_wait, start_time, now, job, termTime, obs, sleeps>>
    /\ UNCHANGED restVars

\* generate_sync(prompt, height, width): builds the payload, POSTs it to
\* /runsync and turns the response into an image or an error.
GenerateSync ==
    /\ pc = "idle"
    /\ \E q \in Requests :
        \E r \in {Reply(c, b) : c \in Codes, b \in SyncBodies}
                 \cup {Broken(e) : e \in TransportExcs} :
            /\ req' = q
            /\ resp' = r
            /\ outcome' = GenerateSyncResult(r)
    /\ op' = "generate_sync"
    /\ net' = Sent("/runsync")
    /\ pc' = "done"
    /\ UNCHANGED <<wait, max_wait, start_time, now, job, termTime, obs, sleeps>>
    /\ UNCHANGED restVars

\* generate_async(prompt, height, width): POSTs the payload to /run and
\* returns the response's 'id'.
GenerateAsync ==
    /\ pc = "idle"
    /\ \E q \in Requests :
        \E r \in {Reply(c, b) : c \in Codes, b \in AsyncBodies}
                 \cup {Broken(e) : e \in TransportExcs} :
            /\ req' = q
            /\ resp' = r
            /\ outcome' = GenerateAsyncResult(r)
    /\ op' = "generate_async"
    /\ net' = Sent("/run")
    /\ pc' = "done"
    /\ UNCHANGED <<wait, max_wait, start_time, now, job, termTime, obs, sleeps>>
    /\ UNCHANGED restVars

\* health_check(): one GET /health with a 5 s timeout, inside try/except.
HealthCheck ==
    /\ pc = "idle"
    /\ \E r \in {Reply(c, EmptyObj) : c \in Codes}
                 \cup {Broken(e) : e \in TransportExcs \cup {"KeyError"}} :
            /\ resp' = r
            /\ outcome' = HealthCheckResult(r)
    /\ op' = "health_check"
    /\ net' = Sent("/health")
    /\ pc' = "done"
    /\ UNCHANGED <<req, wait, max_wait, start_time, now, job, termTime, obs, sleeps>>
    /\ UNCHANGED restVars

\* get_result(job_id, wait, max_wait) is entered: start_time = time.time().
\* The job is in whatever state the service holds for it at that moment.
GetResultEnter ==
    /\ pc = "idle"
    /\ \E w \in BOOLEAN, mw \in 0..MaxWaitArg, j \in JobDocs :
            /\ wait' = w
            /\ max_wait' = mw
            /\ job' = j
            /\ termTime' = IF j \in TerminalJobs THEN now ELSE -1
    /\ op' = "get_result"
    /\ start_time' = now
    /\ pc' = "poll"
    /\ UNCHANGED <<req, now, resp, net, obs, sleeps, outcome>>
    /\ UNCHANGED restVars

\* status = self.check_status(job_id): the GET is issued and the service
\* answers from the document it holds now.
CheckStatus ==
    /\ pc = "poll"
    /\ \E r \in StatusReplies(job) : resp' = r
    /\ net' = Sent("/status")
    /\ pc' = "recv"
    /\ UNCHANGED <<op, req, wait, max_wait, start_time, now, job, termTime,
                   obs, sleeps, outcome>>
    /\ UNCHANGED restVars

\* The response arrives and the loop body runs on it: check_status raises
\* or returns the dictionary, get_result returns, raises, or sleeps
\* SleepSecs and goes round again.
GetResultLoop ==
    /\ pc = "recv"
    /\ LET st == CheckStatusResult(resp)
           res == IF st.kind = "raise" THEN st
                  ELSE GetResultStep(st.val, wait, now - start_time, max_wait)
       IN  /\ obs' = IF st.kind = "raise" THEN obs
                     ELSE Append(obs, Get(st.val, "status", PyNone))
           /\ IF res = NoOutcome
              THEN /\ now' = now + SleepSecs
                   /\ sleeps' = sleeps + 1
                   /\ pc' = "poll"
                   /\ UNCHANGED outcome
              ELSE /\ outcome' = res
                   /\ pc' = "done"
                   /\ UNCHANGED <<now, sleeps>>
    /\ UNCHANGED <<op, req, wait, max_wait, start_time, job, termTime, resp, net>>
    /\ UNCHANGED restVars

\* Time passes while a request is on its way or the thread waits to run.
Tick ==
    /\ pc \in {"poll", "recv"}
    /\ now < MaxTime
    /\ now' = now + 1
    /\ UNCHANGED <<pc, op, req, wait, max_wait, start_time, job, termTime,
                   resp, net, obs, sleeps, outcome>>
    /\ UNCHANGED restVars

\* The service moves the job on: queued to running, or to a terminal
\* document, which it then never changes.
ServiceStep ==
    /\ pc \in {"poll", "recv"}
    /\ job \in PendingJobs
    /\ \E j \in ({[status |-> "IN_PROGRESS"]} \cup TerminalJobs) \ {job} :
            /\ job' = j
            /\ termTime' = IF j \in TerminalJobs THEN now ELSE -1
    /\ UNCHANGED <<pc, op, req, wait, max_wait, start_time, now, resp, net,
                   obs, sleeps, outcome>>
    /\ UNCHANGED restVars

Next ==
    \/ GenerateSync
    \/ GenerateAsync
    \/ HealthCheck
    \/ GetResultEnter
    \/ CheckStatus
    \/ GetResultLoop
    \/ Tick
    \/ ServiceStep

Spec == Init /\ [][Next]_vars

\* Every status query returns (requests.get comes back and the loop body
\* runs on the response) and every time.sleep(1) ends: the two steps of the
\* polling loop are taken whenever they stay possible.
LiveSpec == Spec /\ WF_vars(CheckStatus) /\ WF_vars(GetResultLoop)

\* ------------------------------------------------------- claim vocabulary
KnownStatuses == {"IN_QUEUE", "IN_PROGRESS", "COMPLETED", "FAILED"}
PendingStatuses == {"IN_QUEUE", "IN_PROGRESS"}
IsTerminalStatus(st) == st \notin PendingStatuses
Last(seq) == seq[Len(seq)]
InGetResult == op = "get_result"
Elapsed == now - start_time
TimedOut == outcome.kind = "raise" /\ outcome.type = "TimeoutError"

\* The request shape the documentation asks for.
ValidRequest(q) ==
    /\ q.prompt # ""
    /\ q.height > 0 /\ q.height % 8 = 0
    /\ q.width > 0 /\ q.width % 8 = 0

\* A payload with neither an error indicator nor a usable image field.
LacksImage(body) ==
    LET output == Get(body, "output", EmptyObj)
    IN  /\ "error" \notin DOMAIN output
        /\ "image" \in DOMAIN output => output.image = <<>>

\* ------------------------------------------------------------------ claims
\* C1: a submission (generate_sync or generate_async) of a request with an
\* empty prompt, or a height or width that is no positive multiple of 8,
\* fails with ValidationError and makes no network call.
C1_InvalidRequestRejectedOffline ==
    (pc = "done" /\ op \in {"generate_sync", "generate_async"} /\ ~ValidRequest(req))
        => /\ outcome.kind = "raise"
           /\ outcome.type = "ValidationError"
           /\ net = <<>>

\* C2: in get_result a terminal status is only ever the last observation,
\* it ends the call, and no service call follows it; the observations
\* IN_QUEUE, IN_PROGRESS, COMPLETED with a valid image payload end in the
\* decoded image after exactly three status queries.
C2_NoCallAfterTerminal ==
    InGetResult =>
        /\ \A i \in 1..Len(obs) :
              IsTerminalStatus(obs[i])
                  => i = Len(obs) /\ pc = "done" /\ Len(net) = Len(obs)
        /\ \A i \in 1..Len(net) : net[i].ep = "/status"
        /\ ( /\ obs = <<"IN_QUEUE", "IN_PROGRESS", "COMPLETED">>
             /\ resp.json = [status |-> "COMPLETED",
                             output |-> [image |-> B64Encode(PngBytes)]] )
               => outcome = Return("Image", PngBytes) /\ Len(net) = 3

C2_Witness ==
    /\ InGetResult /\ pc = "done"
    /\ obs = <<"IN_QUEUE", "IN_PROGRESS", "COMPLETED">>
    /\ outcome = Return("Image", PngBytes)
    /\ Len(net) = 3

\* C3: with wait=true, every status query after the first is issued at a
\* moment when the time elapsed since the call started does not exceed
\* max_wait.
C3_NoQueryPastDeadline ==
    (InGetResult /\ wait)
        => \A i \in 2..Len(net) : net[i].at - start_time <= max_wait

\* C4: with wait=true, a pending response handled when the elapsed time
\* exceeds max_wait ends the call with TimeoutError, otherwise the call
\* sleeps and polls again; a waiting call whose queries all returned a
\* pending status ends in TimeoutError and in nothing else.
C4_PendingPastDeadlineTimesOut ==
    /\ [](( InGetResult /\ wait /\ pc = "done" /\ obs # <<>>
            /\ Len(obs) = Len(net)
            /\ \A i \in 1..Len(obs) : obs[i] \in PendingStatuses )
          => TimedOut /\ Elapsed > max_wait)
    /\ [][( InGetResult /\ wait /\ pc = "recv" /\ pc' # "recv"
            /\ resp.exc = "" /\ resp.code = HTTP_OK
            /\ Get(resp.json, "status", PyNone) \in PendingStatuses )
          => IF Elapsed > max_wait
             THEN pc' = "done" /\ outcome'.kind = "raise"
                  /\ outcome'.type = "TimeoutError"
             ELSE pc' = "poll" /\ sleeps' = sleeps + 1]_vars

C4_Witness ==
    /\ InGetResult /\ wait /\ pc = "done"
    /\ Len(obs) >= 2 /\ Len(obs) = Len(net)
    /\ \A i \in 1..Len(obs) : obs[i] \in PendingStatuses
    /\ TimedOut /\ Elapsed > max_wait

\* C5 as stated: get_result never ends in TimeoutError for a job that became
\* terminal (COMPLETED or FAILED) at the service strictly before
\* start_time + max_wait.
C5_NoTimeoutIfTerminalAtService ==
    (InGetResult /\ pc = "done" /\ termTime >= 0
        /\ termTime < start_time + max_wait
        /\ Get(job, "status", PyNone) \in {"COMPLETED", "FAILED"})
        => ~TimedOut

\* C5 amended: get_result never ends in TimeoutError once one of its status
\* queries has returned a terminal status: a TimeoutError is raised only by
\* a waiting call whose every query returned a pending status, when the
\* elapsed time read after the latest response exceeds max_wait.
C5_NoTimeoutOnceTerminalObserved ==
    (InGetResult /\ pc = "done")
        => /\ (\E i \in 1..Len(obs) : IsTerminalStatus(obs[i])) => ~TimedOut
           /\ TimedOut
                => /\ wait /\ obs # <<>>
                   /\ \A i \in 1..Len(obs) : obs[i] \in PendingStatuses
                   /\ Elapsed > max_wait

C5_Witness ==
    /\ InGetResult /\ pc = "done" /\ wait
    /\ termTime > start_time /\ termTime < start_time + max_wait
    /\ Len(obs) >= 2 /\ Last(obs) = "COMPLETED"
    /\ outcome = Return("Image", PngBytes)

\* C6: get_result with wait=false whose first status query returns a
\* pending status returns None, having made exactly one status query and
\* no sleep, whatever max_wait is; a wait=false call never sleeps and never
\* makes a second query.
C6_NoWaitReturnsNotReady ==
    (InGetResult /\ ~wait)
        => /\ sleeps = 0 /\ Len(net) <= 1
           /\ (obs # <<>> /\ obs[1] \in PendingStatuses)
                => /\ pc = "done"
                   /\ outcome = Return("NoneType", <<>>)
                   /\ Len(net) = 1 /\ Len(obs) = 1

C6_Witness ==
    /\ InGetResult /\ ~wait /\ pc = "done" /\ max_wait = 0
    /\ obs = <<"IN_PROGRESS">>
    /\ outcome = Return("NoneType", <<>>)
    /\ Len(net) = 1 /\ sleeps = 0

\* C7: a status outside {IN_QUEUE, IN_PROGRESS, COMPLETED, FAILED}, a missing
\* status field included, ends get_result at once with an error that names
\* it: no sleep and no query follow it, with wait true or false.
C7_UnknownStatusIsTerminal ==
    InGetResult =>
        \A i \in 1..Len(obs) :
            obs[i] \notin KnownStatuses
                => /\ i = Len(obs) /\ pc = "done"
                   /\ outcome = Raise("Exception", <<"Unknown job status: ", obs[i]>>)
                   /\ Len(net) = i /\ sleeps = i - 1

C7_Witness ==
    /\ InGetResult /\ pc = "done" /\ wait
    /\ Len(obs) >= 2 /\ Last(obs) = PyNone
    /\ outcome.kind = "raise" /\ sleeps = Len(obs) - 1

C9_MissingImageIsRemoteError ==
    ( /\ pc = "done"
      /\ resp.exc = "" /\ resp.code = HTTP_OK
      /\ \/ InGetResult /\ obs # <<>> /\ Last(obs) = "COMPLETED"
         \/ op = "generate_sync" /\ "error" \notin DOMAIN resp.json
      /\ LacksImage(resp.json) )
        => /\ outcome.kind = "raise"
           /\ outcome.type = "Exception"
           /\ outcome.val = <<"No image in response: ">>

\* C10: health_check makes exactly one probe request and returns a boolean,
\* never raising; a raised transport exception and a non-2xx response both
\* give False.
C10_HealthCheckNeverRaises ==
    (pc = "done" /\ op = "health_check")
        => /\ outcome.kind = "return" /\ outcome.type = "bool"
           /\ Len(net) = 1 /\ net[1].ep = "/health"
           /\ (resp.exc # "" \/ resp.code \notin 200..299) => outcome.val = FALSE

C10_Witness ==
    /\ pc = "done" /\ op = "health_check"
    /\ resp.exc = "ConnectionError"
    /\ outcome = Return("bool", FALSE)

\* The failure categories the design distinguishes.
Categories == {"transport", "remote", "timeout", "unrecognized"}

\* The category of the failure a finished call ended in, "none" when it
\* returned or failed for a reason outside the four categories.
FailureCategory ==
    IF pc # "done" \/ outcome.kind # "raise" \/ resp.exc # "" THEN "none"
    ELSE IF op \in {"generate_sync", "generate_async", "get_result"}
            /\ resp.code \notin 200..299 THEN "transport"
    ELSE IF resp.code # HTTP_OK THEN "none"
    ELSE IF op = "generate_sync" THEN
        IF \/ "error" \in DOMAIN resp.json
           \/ "error" \in DOMAIN Get(resp.json, "output", EmptyObj)
           \/ LacksImage(resp.json)
        THEN "remote" ELSE "none"
    ELSE IF InGetResult /\ obs # <<>> THEN
        IF Last(obs) = "FAILED" THEN "remote"
        ELSE IF Last(obs) = "COMPLETED" THEN
            IF \/ "error" \in DOMAIN Get(resp.json, "output", EmptyObj)
               \/ LacksImage(resp.json)
            THEN "remote" ELSE "none"
        ELSE IF Last(obs) \in PendingStatuses THEN "timeout"
        ELSE "unrecognized"
    ELSE "none"

\* The error kinds the methods raise for the failures of a category.
KindsRaised(cat) ==
    IF cat = "transport" THEN
        {CheckStatusResult(Reply(c, EmptyObj)).type : c \in Codes \ (200..299)}
        \cup {GenerateSyncResult(Reply(c, EmptyObj)).type : c \in Codes \ (200..299)}
        \cup {GenerateAsyncResult(Reply(c, EmptyObj)).type : c \in Codes \ (200..299)}
    ELSE IF cat = "remote" THEN
        {FailedBranch([status |-> "FAILED", error |-> e]).type : e \in Reasons}
        \cup {CompletedBranch([status |-> "COMPLETED", output |-> [error |-> e]]).type :
                e \in Reasons}
        \cup {GenerateSyncResult(Reply(HTTP_OK, [error |-> e])).type : e \in Reasons}
        \cup {CompletedBranch([status |-> "COMPLETED"]).type}
    ELSE IF cat = "timeout" THEN
        {PendingBranch(TRUE, mw + 1, mw).type : mw \in 0..MaxWaitArg}
    ELSE
        {UnknownBranch(st).type : st \in {"CANCELLED", PyNone}}

\* C11: a failure of one category (transport, remote, timeout, unrecognized
\* status) is raised with an error kind that no failure of another category
\* is raised with.
C11_ErrorKindsDistinct ==
    FailureCategory # "none"
        => \A c \in Categories \ {FailureCategory} :
              outcome.type \notin KindsRaised(c)

\* C12: a finished generate_sync has made exactly one network call, to
\* /runsync, and a finished generate_async exactly one, to /run, whatever
\* the response was.
C12_OneCallPerSubmission ==
    /\ (pc = "done" /\ op = "generate_sync")
          => Len(net) = 1 /\ net[1].ep = "/runsync"
    /\ (pc = "done" /\ op = "generate_async")
          => Len(net) = 1 /\ net[1].ep = "/run"

C12_Witness ==
    /\ pc = "done" /\ op = "generate_sync"
    /\ resp.exc = "" /\ resp.code = 500
    /\ outcome.kind = "raise"
    /\ net = <<[ep |-> "/runsync", at |-> 0]>>

\* C13: a status query of get_result that fails (a raised transport
\* exception or a status code other than 200), at the first or a later poll
\* and with wait true or false, ends the call at once with that failure and
\* is never followed by another query or a sleep; a failed submission is
\* not sent again either.
C13_NoRetry ==
    /\ InGetResult => Len(net) <= Len(obs) + 1
    /\ ( InGetResult /\ net # <<>> /\ pc # "recv"
         /\ (resp.exc # "" \/ resp.code # HTTP_OK) )
          => /\ pc = "done"
             /\ outcome = IF resp.exc # "" THEN Raise(resp.exc, <<>>)
                          ELSE Raise("Exception",
                                     <<"Status check failed: ", ToString(resp.code)>>)
             /\ Len(net) = Len(obs) + 1
             /\ sleeps = Len(obs)
    /\ ( pc = "done" /\ op \in {"generate_sync", "generate_async"}
         /\ (resp.exc # "" \/ resp.code # HTTP_OK) )
          => outcome.kind = "raise" /\ Len(net) = 1

C13_Witness ==
    /\ InGetResult /\ pc = "done" /\ wait
    /\ Len(obs) >= 1 /\ Len(net) = Len(obs) + 1
    /\ resp.exc = "" /\ resp.code = 500
    /\ outcome = Raise("Exception", <<"Status check failed: ", "500">>)

\* The application error a response embeds: the top-level 'error' or the
\* 'error' inside 'output' for generate_sync, the 'error' inside the output
\* of a COMPLETED status for get_result.
EmbeddedError ==
    LET output == Get(resp.json, "output", EmptyObj)
    IN  IF op = "generate_sync" /\ "error" \in DOMAIN resp.json
        THEN [some |-> TRUE, v |-> resp.json.error]
        ELSE IF /\ \/ op = "generate_sync"
                   \/ InGetResult /\ Get(resp.json, "status", PyNone) = "COMPLETED"
                /\ "error" \in DOMAIN output
        THEN [some |-> TRUE, v |-> output.error]
        ELSE [some |-> FALSE, v |-> ""]

TransportFailure ==
    /\ outcome.kind = "raise" /\ outcome.type = "Exception"
    /\ outcome.val # <<>>
    /\ outcome.val[1] \in {"API request failed: ", "Status check failed: "}

\* C18: on every call that got a response, the response is treated as a
\* transport failure exactly when its status code is outside 200..299; the
\* liveness probe reports healthy exactly for a code inside 200..299.
C18_TransportFailureIffNon2xx ==
    (pc = "done" /\ resp.exc = "")
        => IF op = "health_check"
           THEN outcome.val = (resp.code \in 200..299)
           ELSE TransportFailure <=> resp.code \notin 200..299

\* C19: a generate_async that returns has returned the job identifier string
\* of the response, and the response carried no error indicator.
C19_AsyncReturnsJobId ==
    (pc = "done" /\ op = "generate_async" /\ outcome.kind = "return")
        => /\ outcome.type = "str"
           /\ "id" \in DOMAIN resp.json
           /\ outcome.val = <<resp.json.id>>
           /\ "error" \notin DOMAIN resp.json

\* The most status queries a waiting get_result can make: one per poll
\* interval that fits in max_wait, plus the first and the last.
MaxQueries(mw) == mw \div SleepSecs + 2

\* C17: a waiting get_result always ends, by returning or raising, whatever
\* the service answers, and it never makes more than MaxQueries(max_wait)
\* status queries.
C17_GetResultTerminates ==
    /\ (InGetResult /\ wait) ~> (pc = "done")
    /\ [](InGetResult => Len(net) <= MaxQueries(max_wait))

C17_Witness ==
    /\ InGetResult /\ wait /\ pc = "done"
    /\ max_wait = MaxWaitArg
    /\ Len(net) = MaxQueries(max_wait)
    /\ TimedOut

\* ------------------------------------------------- the base64 round trip
\* Byte values tried: all bits clear, all set, alternating, and the lowest.
ByteSamples == {0, 1, 85, 170, 255}

\* The byte sequences of at most n sample bytes.
ByteSeqs(n) == UNION {[1..k -> ByteSamples] : k \in 0..n}

InitB64 ==
    /\ ClientIdle /\ HandlerIdle /\ ConcIdle
    /\ raw \in ByteSeqs(MaxBytes)
    /\ img_b64 = <<>>
    /\ img_data = [ok |-> FALSE, bytes |-> <<>>]
    /\ b64pc = "raw"

\* The handler: img_base64 = base64.b64encode(buffered.getvalue()).decode()
HandlerEncode ==
    /\ b64pc = "raw"
    /\ img_b64' = B64Encode(raw)
    /\ b64pc' = "encoded"
    /\ UNCHANGED <<raw, img_data, clientVars, handlerVars, concVars>>

\* The client: img_data = base64.b64decode(img_base64), which raises
\* binascii.Error on a string it does not accept.
ClientDecode ==
    /\ b64pc = "encoded"
    /\ img_data' = IF B64Valid(img_b64)
                   THEN [ok |-> TRUE, bytes |-> B64Decode(img_b64)]
                   ELSE [ok |-> FALSE, bytes |-> <<>>]
    /\ b64pc' = "decoded"
    /\ UNCHANGED <<raw, img_b64, clientVars, handlerVars, concVars>>

NextB64 == HandlerEncode \/ ClientDecode

SpecB64 == InitB64 /\ [][NextB64]_vars

\* C16: the bytes the client decodes from the 'image' string the handler
\* encoded are the bytes the handler encoded, for every byte sequence.
C16_DecodeInvertsEncode ==
    b64pc = "decoded" => img_data = [ok |-> TRUE, bytes |-> raw]

C16_Witness ==
    /\ b64pc = "decoded"
    /\ raw = <<255, 170, 85, 1>>
    /\ img_b64 = <<63, 58, 41, 21, 0, 16, Pad, Pad>>
    /\ img_data = [ok |-> TRUE, bytes |-> raw]

\* ------------------------------------------------- the service's handler
\* height = job_input.get("height", 1024), and the same for width.
DefaultDim == 1024

\* dict restricted to the keys K.
Restrict(d, K) == [k \in K |-> d[k]]

\* A seed: None, or an integer.
NoSeed == [some |-> FALSE]
Seeds == {NoSeed, [some |-> TRUE, v |-> 42]}

\* The 'input' dictionaries tried: every subset of the keys prompt, height,
\* width and seed, with an empty or a non-empty prompt and dimensions that
\* are a negative multiple of 8, zero, a positive multiple and a
\* non-multiple.
HandlerInputs ==
    {Restrict(full, K) :
        full \in [prompt : {"", "sunset"}, height : {-8, 0, 8, 1023},
                  width : {-8, 0, 8, 1023}, seed : Seeds],
        K \in SUBSET {"prompt", "height", "width", "seed"}}

\* The jobs tried: with an input, and with no 'input' key at all.
HandlerJobs ==
    {[id |-> "test-job-123", input |-> i] : i \in HandlerInputs}
    \cup {[id |-> "test-job-123"]}

\* The dictionary the except clause returns.
ErrorResult(msg) == [error |-> msg, traceback |-> "Traceback"]

\* The exception classes the body of the try block raises: KeyError from
\* job["input"], RuntimeError from a failing pipeline call.
BodyExceptions == {"KeyError", "RuntimeError"}

\* What str(e) gives for the exception raised.
ExcText(exc) == IF exc = "KeyError" THEN "'input'" ELSE "pipeline failed"

\* The dictionary of a successful generation.
ImageResult(prompt, seed, height, width) ==
    [image |-> B64Encode(PngBytes), format |-> "base64",
     prompt |-> prompt, seed |-> seed, height |-> height, width |-> width]

\* No exception.
NotRaised == ""

\* The body of the try block: the dictionary it returns or the exception
\* it raises, and the pipeline calls made; ok tells whether the pipeline
\* call succeeds or raises.
TryBody(j, ok) ==
    IF "input" \notin DOMAIN j THEN
        [raised |-> "KeyError", result |-> EmptyObj, calls |-> <<>>]
    ELSE
        LET job_input == j.input
            prompt == Get(job_input, "prompt", "")
            height == Get(job_input, "height", DefaultDim)
            width == Get(job_input, "width", DefaultDim)
            seed == Get(job_input, "seed", NoSeed)
            call == [prompt |-> prompt, height |-> height, width |-> width]
        IN  IF prompt = "" THEN
                [raised |-> NotRaised, result |-> [error |-> "No prompt provided"],
                 calls |-> <<>>]
            ELSE IF height % 8 # 0 \/ width % 8 # 0 THEN
                [raised |-> NotRaised,
                 result |-> [error |-> "Height and width must be multiples of 8"],
                 calls |-> <<>>]
            ELSE IF ~ok THEN
                [raised |-> "RuntimeError", result |-> EmptyObj,
                 calls |-> <<call>>]
            ELSE
                [raised |-> NotRaised,
                 result |-> ImageResult(prompt, seed, height, width),
                 calls |-> <<call>>]

\* An except clause that names KeyError only.
CaughtByExcept_KeyErrorOnly(exc) == exc = "KeyError"

\* except Exception as e: catches every exception class the body raises.
CaughtByExcept(exc) == exc \in BodyExceptions

\* generate_image(job): the dictionary returned or the exception that
\* leaves the function, and the pipeline calls made.
GenerateImage(j, ok) ==
    LET body == TryBody(j, ok)
    IN  IF body.raised # NotRaised /\ CaughtByExcept(body.raised)
        THEN [raised |-> NotRaised, result |-> ErrorResult(ExcText(body.raised)),
              calls |-> body.calls]
        ELSE body

InitHandler ==
    /\ ClientIdle /\ B64Idle /\ ConcIdle
    /\ hjob \in HandlerJobs
    /\ pipeOk \in BOOLEAN
    /\ pipeCalls = <<>>
    /\ hresult = EmptyObj
    /\ hpc = "ready"

\* The serverless runtime calls generate_image(job) once: the call returns
\* a dictionary (hpc = "done") or an exception reaches the runtime
\* (hpc = "raised").
HandlerGenerate ==
    /\ hpc = "ready"
    /\ hresult' = GenerateImage(hjob, pipeOk).result
    /\ pipeCalls' = GenerateImage(hjob, pipeOk).calls
    /\ hpc' = IF GenerateImage(hjob, pipeOk).raised = NotRaised
              THEN "done" ELSE "raised"
    /\ UNCHANGED <<hjob, pipeOk, clientVars, b64Vars, concVars>>

NextHandler == HandlerGenerate

SpecHandler == InitHandler /\ [][NextHandler]_vars

\* A dimension the data model accepts.
PositiveMultipleOf8(n) == n > 0 /\ n % 8 = 0

\* A job the handler has to reject: no input or no prompt, an empty prompt,
\* or a height or width that is no positive multiple of 8.
RejectedJob(j) ==
    \/ "input" \notin DOMAIN j
    \/ Get(j.input, "prompt", "") = ""
    \/ ~PositiveMultipleOf8(Get(j.input, "height", DefaultDim))
    \/ ~PositiveMultipleOf8(Get(j.input, "width", DefaultDim))

\* C20: generate_image returns an error result, without having called the
\* pipeline, for every job whose prompt is empty or missing or whose height
\* or width is not a positive multiple of 8.
C20_HandlerRejectsInvalidJobs ==
    (hpc = "done" /\ RejectedJob(hjob))
        => "error" \in DOMAIN hresult /\ pipeCalls = <<>>

\* ------------------------------------------ concurrent get_result calls
\* The job handles polled at the same time, one call each.
CallIds == {"job-1", "job-2"}

\* The client object after __init__.
ClientObject ==
    [endpoint_id |-> "ep", api_key |-> "key",
     base_url |-> "https://api.runpod.ai/v2/ep",
     headers |-> "Bearer key"]

\* The documents a job can hold in the concurrent runs.
ConcPending == [status |-> "IN_QUEUE"]
ConcTerminal ==
    {[status |-> "COMPLETED", output |-> [image |-> B64Encode(PngBytes)]],
     [status |-> "FAILED", error |-> "oom"]}

\* The status codes the service answers with in the concurrent runs.
ConcCodes == {HTTP_OK, 500}

\* The locals of a get_result call that has not been entered.
IdleCall ==
    [pc |-> "idle", wait |-> FALSE, max_wait |-> 0, start_time |-> 0,
     resp |-> NoReply, url |-> [base |-> "", job_id |-> ""],
     hist |-> <<>>, queries |-> 0, sleeps |-> 0, wake |-> 0,
     outcome |-> NoOutcome]

InitConc ==
    /\ ClientIdle /\ B64Idle /\ HandlerIdle
    /\ self = ClientObject
    /\ calls = [c \in CallIds |-> IdleCall]
    /\ jobs \in [CallIds -> {ConcPending} \cup ConcTerminal]
    /\ clock = 0

\* A start time kept in one slot for all calls (as a field of the client
\* object would be): every call reads what the latest entered call wrote.
StartTimeRead_Shared(c) ==
    LET entered == {d \in CallIds : calls[d].pc # "idle"}
    IN  CHOOSE t \in {calls[d].start_time : d \in entered} :
            \A d \in entered : calls[d].start_time <= t

\* start_time as the loop reads it: a local of the call.
StartTimeRead(c) == calls[c].start_time

\* get_result(c, wait, max_wait) is entered by a thread.
ConcEnter(c) ==
    /\ calls[c].pc = "idle"
    /\ \E w \in BOOLEAN, mw \in 0..ConcMaxWait :
        calls' = [calls EXCEPT ![c].pc = "poll", ![c].wait = w,
                               ![c].max_wait = mw, ![c].start_time = clock]
    /\ UNCHANGED <<self, jobs, clock, clientVars, b64Vars, handlerVars>>

\* check_status(c): the GET goes to {self.base_url}/status/{c} and the
\* service answers from the document of the job the URL names.
ConcCheckStatus(c) ==
    /\ calls[c].pc = "poll"
    /\ LET url == [base |-> self.base_url, job_id |-> c]
       IN  \E code \in ConcCodes :
            calls' = [calls EXCEPT ![c].pc = "recv", ![c].url = url,
                                   ![c].resp = Reply(code, jobs[url.job_id]),
                                   ![c].queries = @ + 1]
    /\ UNCHANGED <<self, jobs, clock, clientVars, b64Vars, handlerVars>>

\* The loop body of call c on its response.
ConcLoop(c) ==
    /\ calls[c].pc = "recv"
    /\ LET k == calls[c]
           st == CheckStatusResult(k.resp)
           res == IF st.kind = "raise" THEN st
                  ELSE GetResultStep(st.val, k.wait, clock - StartTimeRead(c),
                                     k.max_wait)
           seen == Append(k.hist, [reply |-> k.resp, job_id |-> k.url.job_id,
                                   at |-> clock])
       IN  calls' = IF res = NoOutcome
                    THEN [calls EXCEPT ![c].pc = "sleep", ![c].hist = seen,
                                       ![c].sleeps = @ + 1,
                                       ![c].wake = clock + SleepSecs]
                    ELSE [calls EXCEPT ![c].pc = "done", ![c].hist = seen,
                                       ![c].outcome = res]
    /\ UNCHANGED <<self, jobs, clock, clientVars, b64Vars, handlerVars>>

\* time.sleep(1) of call c ends.
ConcWake(c) ==
    /\ calls[c].pc = "sleep"
    /\ clock >= calls[c].wake
    /\ calls' = [calls EXCEPT ![c].pc = "poll"]
    /\ UNCHANGED <<self, jobs, clock, clientVars, b64Vars, handlerVars>>

\* Time passes for every thread: up to ConcMaxTime, and as long as a
\* sleeping call waits for its second to pass.
ConcTick ==
    /\ \E c \in CallIds : calls[c].pc \in {"poll", "recv", "sleep"}
    /\ \/ clock < ConcMaxTime
       \/ \E c \in CallIds : calls[c].pc = "sleep" /\ clock < calls[c].wake
    /\ clock' = clock + 1
    /\ UNCHANGED <<self, calls, jobs, clientVars, b64Vars, handlerVars>>

\* The service finishes job c.
ConcService(c) ==
    /\ jobs[c] = ConcPending
    /\ calls[c].pc \notin {"idle", "done"}
    /\ \E j \in ConcTerminal : jobs' = [jobs EXCEPT ![c] = j]
    /\ UNCHANGED <<self, calls, clock, clientVars, b64Vars, handlerVars>>

NextConc ==
    \/ \E c \in CallIds : ConcEnter(c)
    \/ \E c \in CallIds : ConcCheckStatus(c)
    \/ \E c \in CallIds : ConcLoop(c)
    \/ \E c \in CallIds : ConcWake(c)
    \/ ConcTick
    \/ \E c \in CallIds : ConcService(c)

SpecConc == InitConc /\ [][NextConc]_vars

\* What one call alone returns on the responses it handled, in order, each
\* at the time it was handled: the loop of get_result run sequentially with
\* the call's own arguments and start time. A result before the last
\* response means the call went on after it should have ended.
RECURSIVE Replay(_, _, _, _, _)
Replay(h, i, w, mw, start) ==
    IF i > Len(h) THEN NoOutcome
    ELSE LET st == CheckStatusResult(h[i].reply)
             res == IF st.kind = "raise" THEN st
                    ELSE GetResultStep(st.val, w, h[i].at - start, mw)
         IN  IF res = NoOutcome THEN Replay(h, i + 1, w, mw, start)
             ELSE IF i = Len(h) THEN res
             ELSE Raise("went on after the end", "")

\* C15: concurrent get_result calls on different job handles do not
\* interfere. Every call asks only about its own job, ends exactly when
\* and with exactly the result that a call running alone on the same
\* responses would, makes one query per response it handled, and no call
\* changes the client object the calls share.
C15_ConcurrentCallsIndependent ==
    /\ self = ClientObject
    /\ \A c \in CallIds :
        LET k == calls[c]
        IN  /\ \A i \in 1..Len(k.hist) : k.hist[i].job_id = c
            /\ k.outcome = Replay(k.hist, 1, k.wait, k.max_wait, k.start_time)
            /\ (k.pc = "done") = (k.outcome # NoOutcome)
            /\ k.queries = Len(k.hist) + (IF k.pc = "recv" THEN 1 ELSE 0)

\* Both calls have ended, they were entered at different times and their
\* steps interleaved: one timed out while the other returned its image.
C15_Witness ==
    /\ calls["job-1"].pc = "done" /\ calls["job-2"].pc = "done"
    /\ calls["job-1"].start_time < calls["job-2"].start_time
    /\ calls["job-1"].outcome.kind = "raise"
    /\ calls["job-1"].outcome.type = "TimeoutError"
    /\ calls["job-2"].outcome = Return("Image", PngBytes)
    /\ calls["job-2"].hist[1].at < calls["job-1"].hist[Len(calls["job-1"].hist)].at

\* ------------------------------------------- results of the handler
\* The value of parameter k that the request asks for: the one in its
\* input, or the default of generate_image where the input has none.
Requested(j, k) ==
    Get(j.input, k,
        IF k = "seed" THEN NoSeed ELSE IF k = "prompt" THEN "" ELSE DefaultDim)

\* C21: generate_image never raises to its caller. For every job, also
\* one with no 'input' key and one whose pipeline call fails, it returns a
\* dictionary with exactly one of the keys 'image' and 'error', and a
\* dictionary with 'image' carries the request's prompt, seed, height and
\* width unchanged (for a parameter the input leaves out, its default).
C21_HandlerAlwaysReturnsOneOf ==
    /\ hpc # "raised"
    /\ hpc = "done" =>
        /\ ("image" \in DOMAIN hresult) # ("error" \in DOMAIN hresult)
        /\ "image" \in DOMAIN hresult =>
            /\ "input" \in DOMAIN hjob
            /\ \A k \in {"prompt", "seed", "height", "width"} :
                /\ k \in DOMAIN hresult
                /\ hresult[k] = Requested(hjob, k)
                /\ k \in DOMAIN hjob.input => hresult[k] = hjob.input[k]

\* The pipeline call failed on a valid job and the handler returned the
\* error dictionary of its except clause.
C21_Witness ==
    /\ hpc = "done" /\ ~pipeOk /\ Len(pipeCalls) = 1
    /\ hresult = ErrorResult("pipeline failed")

====
